---------------------------- MODULE Spec2Model ----------------------------
(***************************************************************************)
(* A model of xrandr-gui.py: the xrandr --query parser, the mirror group   *)
(* detector, the drag-and-drop snap engine and the command dispatcher of   *)
(* the XrandrGUI window.                                                   *)
(*                                                                         *)
(* Text is modelled at the level of whitespace-separated tokens: a line of *)
(* the query output is a record [indent, toks], indent being the number of *)
(* leading blanks and toks the tokens, kept as the strings xrandr prints.  *)
(* The regular expressions of the parser are modelled by what they accept  *)
(* on such a line; the decimal conversions int(...) and the formatting     *)
(* f"{width}x{height}" are the tables Geom, Res and ModeStr.               *)
(***************************************************************************)
EXTENDS Integers, Sequences, FiniteSets, TLC

VARIABLES
    \* ---- the locals of parse_xrandr_output (SpecParse runs its loop one
    \*      iteration per step; in Spec they are those of the last call)
    output,            \* result.stdout.split('\n'), as token lines
    line_idx,          \* number of lines the for loop has consumed
    p_displays,        \* the local list "displays" being built
    current_display,   \* index into p_displays of current_display, 0 = None
    \* ---- the fields of XrandrGUI
    displays,                \* self.displays
    display_widgets,         \* self.display_widgets, in insertion order
    source_display,          \* name of self.source_display, or None
    target_display,          \* name of self.target_display, or None
    pending_layout_changes,  \* self.pending_layout_changes, in insertion order
    mirror_btn,              \* sensitivity of the five buttons
    extend_right_btn,
    extend_left_btn,
    apply_layout_btn,
    unlink_mirror_btn,
    timeouts,                \* refresh_displays callbacks GLib still holds
    \* ---- what the last handler did
    event,                   \* the handler and its arguments
    commands,                \* the xrandr invocations it made, with outcome
    shown,                   \* the messages it pushed with show_status
    dialogs,                 \* the messages it raised with show_error
    n_drags                  \* drags started on the present widgets

parseVars == <<output, line_idx, p_displays, current_display>>

guiVars == <<displays, display_widgets, source_display, target_display,
             pending_layout_changes, mirror_btn, extend_right_btn,
             extend_left_btn, apply_layout_btn, unlink_mirror_btn, timeouts,
             event, commands, shown, dialogs, n_drags>>

vars == <<output, line_idx, p_displays, current_display,
          displays, display_widgets, source_display, target_display,
          pending_layout_changes, mirror_btn, extend_right_btn,
          extend_left_btn, apply_layout_btn, unlink_mirror_btn, timeouts,
          event, commands, shown, dialogs, n_drags>>

----------------------------------------------------------------------------
(* Bounds of the model *)

\* longest query output, in lines, that SpecParse enumerates
MaxLines == 4

\* drags that Spec starts on one generation of widgets (between refreshes)
MaxDrags == 1

\* the same for SpecLayout
MaxLayoutDrags == 2

\* deferred refreshes that Spec lets wait at the same time
MaxTimeouts == 1

----------------------------------------------------------------------------
(* Lexical tables: what int() and the f-string make of the tokens *)

\* the WxH tokens (\d+x\d+) and the integers they denote
Res ==
    ("1920x1080" :> <<1920, 1080>>) @@ ("1280x720" :> <<1280, 720>>) @@
    ("1024x768" :> <<1024, 768>>)

\* f"{width}x{height}"
ModeStr(w, h) == CHOOSE s \in DOMAIN Res : Res[s] = <<w, h>>

\* the geometry tokens (\d+)x(\d+)\+(\d+)\+(\d+) and int() of their groups
Geom ==
    ("1920x1080+0+0" :> <<1920, 1080, 0, 0>>) @@
    ("1280x720+0+0" :> <<1280, 720, 0, 0>>) @@
    ("1280x720+1920+0" :> <<1280, 720, 1920, 0>>) @@
    ("1280x720+3200+0" :> <<1280, 720, 3200, 0>>)

\* tokens that begin with [\d.]+ : the digits matched and whether a '*'
\* follows them immediately
RateTok ==
    ("60.00" :> [num |-> "60.00", star |-> FALSE]) @@
    ("59.94" :> [num |-> "59.94", star |-> FALSE]) @@
    ("60.00*+" :> [num |-> "60.00", star |-> TRUE]) @@
    ("50.00*" :> [num |-> "50.00", star |-> TRUE])

\* every token of the vocabulary that contains the character '*'
StarTokens == {t \in DOMAIN RateTok : RateTok[t].star}

Line(n, ts) == [indent |-> n, toks |-> ts]

----------------------------------------------------------------------------
(* parse_xrandr_output *)

\* re.match(r'^(\S+)\s+(connected|disconnected)\s*(primary)?\s*(?:geom)?')
HeaderMatch(l) ==
    /\ l.indent = 0
    /\ Len(l.toks) >= 2
    /\ l.toks[2] \in {"connected", "disconnected"}

\* match.group(3) == 'primary'
HeaderPrimary(l) == Len(l.toks) >= 3 /\ l.toks[3] = "primary"

\* position of the token that the optional geometry group is tried on
GeomPos(l) == IF HeaderPrimary(l) THEN 4 ELSE 3

\* match.group(4) is not None
HeaderHasGeom(l) ==
    Len(l.toks) >= GeomPos(l) /\ l.toks[GeomPos(l)] \in DOMAIN Geom

\* HeaderGeom with 1280x720 as the fallback size
HeaderGeomSmallDefault(l) ==
    IF HeaderHasGeom(l) THEN Geom[l.toks[GeomPos(l)]]
    ELSE <<1280, 720, 0, 0>>

\* groups 4..7 with the fallbacks of lines 477-480
HeaderGeom(l) ==
    IF HeaderHasGeom(l) THEN Geom[l.toks[GeomPos(l)]]
    ELSE <<1920, 1080, 0, 0>>

\* Display(...) of lines 482-493
NewDisplay(l) ==
    LET g == HeaderGeom(l) IN
    [name |-> l.toks[1],
     width |-> g[1], height |-> g[2], x |-> g[3], y |-> g[4],
     is_primary |-> HeaderPrimary(l),
     is_connected |-> TRUE,
     modes |-> <<>>,
     current_mode |-> ModeStr(g[1], g[2]),
     current_rate |-> "60.00"]

\* re.match(r'\s+(\d+x\d+)\s+([\d.]+)', line)
ModeMatch(l) ==
    /\ l.indent >= 1
    /\ Len(l.toks) >= 2
    /\ l.toks[1] \in DOMAIN Res
    /\ l.toks[2] \in DOMAIN RateTok

\* '*' in line
LineHasStar(l) == \E i \in 1..Len(l.toks) : l.toks[i] \in StarTokens

\* re.search(r'([\d.]+)\*', line): index of the leftmost match, 0 if none
RateMatch(l) ==
    LET S == {i \in 1..Len(l.toks) :
                 l.toks[i] \in DOMAIN RateTok /\ RateTok[l.toks[i]].star}
    IN IF S = {} THEN 0 ELSE CHOOSE i \in S : \A j \in S : i <= j

InSeq(e, s) == \E i \in 1..Len(s) : s[i] = e

\* ApplyModeLine without the "mode not in current_display.modes" test
ApplyModeLineNoDedup(d, l) ==
    LET mode == l.toks[1]
        d1 == [d EXCEPT !.modes = Append(d.modes, mode)]
        d2 == IF LineHasStar(l) THEN [d1 EXCEPT !.current_mode = mode] ELSE d1
    IN IF LineHasStar(l) /\ RateMatch(l) # 0
       THEN [d2 EXCEPT !.current_rate = RateTok[l.toks[RateMatch(l)]].num]
       ELSE d2

\* lines 499-507 on the display current_display refers to
ApplyModeLine(d, l) ==
    LET mode == l.toks[1]
        d1 == IF InSeq(mode, d.modes) THEN d
              ELSE [d EXCEPT !.modes = Append(d.modes, mode)]
        d2 == IF LineHasStar(l) THEN [d1 EXCEPT !.current_mode = mode] ELSE d1
    IN IF LineHasStar(l) /\ RateMatch(l) # 0
       THEN [d2 EXCEPT !.current_rate = RateTok[l.toks[RateMatch(l)]].num]
       ELSE d2

\* ParseLine without the "if is_connected" test of line 476
ParseLineNoFilter(st, l) ==
    IF HeaderMatch(l)
    THEN [displays |-> Append(st.displays,
                          [NewDisplay(l) EXCEPT
                              !.is_connected = (l.toks[2] = "connected")]),
          current |-> Len(st.displays) + 1]
    ELSE IF st.current # 0 /\ l.indent >= 3
         THEN IF ModeMatch(l)
              THEN [st EXCEPT !.displays[st.current] =
                                  ApplyModeLine(st.displays[st.current], l)]
              ELSE st
         ELSE st

\* one iteration of the for loop of lines 463-507; st = [displays, current]
ParseLine(st, l) ==
    IF HeaderMatch(l)
    THEN IF l.toks[2] = "connected"
         THEN [displays |-> Append(st.displays, NewDisplay(l)),
               current |-> Len(st.displays) + 1]
         ELSE st
    ELSE IF st.current # 0 /\ l.indent >= 3
         THEN IF ModeMatch(l)
              THEN [st EXCEPT !.displays[st.current] =
                                  ApplyModeLine(st.displays[st.current], l)]
              ELSE st
         ELSE st

RECURSIVE ParseLines(_, _, _)
ParseLines(st, lines, i) ==
    IF i > Len(lines) THEN st
    ELSE ParseLines(ParseLine(st, lines[i]), lines, i + 1)

\* the list parse_xrandr_output returns for the stdout "lines"
ParseOutput(lines) ==
    ParseLines([displays |-> <<>>, current |-> 0], lines, 1).displays

----------------------------------------------------------------------------
(* SpecParse: the parser on every query output of at most MaxLines lines *)

LineVocab ==
    { Line(0, <<"A", "connected", "primary", "1920x1080+0+0">>),
      Line(0, <<"B", "connected", "(normal">>),
      Line(0, <<"C", "disconnected", "1280x720+1920+0">>),
      Line(0, <<"D", "disconnected", "(normal">>),
      Line(3, <<"1920x1080", "60.00*+", "59.94">>),
      Line(3, <<"1280x720", "59.94">>),
      Line(3, <<"1280x720", "60.00", "50.00*">>),
      Line(3, <<"1024x768", "60.00">>),
      Line(0, <<"Screen", "0:">>) }

RECURSIVE SeqsUpTo(_, _)
SeqsUpTo(S, n) ==
    IF n = 0 THEN {<<>>}
    ELSE LET R == SeqsUpTo(S, n - 1)
         IN R \cup {Append(s, e) : s \in {r \in R : Len(r) = n - 1}, e \in S}

\* the window fields before refresh_displays has run (lines 242-246, and the
\* set_sensitive(False) calls of setup_ui)
GuiBlank ==
    /\ displays = <<>>
    /\ display_widgets = <<>>
    /\ source_display = "None"
    /\ target_display = "None"
    /\ pending_layout_changes = <<>>
    /\ mirror_btn = FALSE
    /\ extend_right_btn = FALSE
    /\ extend_left_btn = FALSE
    /\ apply_layout_btn = FALSE
    /\ unlink_mirror_btn = FALSE
    /\ timeouts = 0
    /\ event = [op |-> "init"]
    /\ commands = <<>>
    /\ shown = <<>>
    /\ dialogs = <<>>
    /\ n_drags = 0

InitParse ==
    /\ output \in SeqsUpTo(LineVocab, MaxLines)
    /\ line_idx = 0
    /\ p_displays = <<>>
    /\ current_display = 0
    /\ GuiBlank

\* the body of "for line in output.split('\n')" on the next line
ParseStep ==
    /\ line_idx < Len(output)
    /\ LET st == ParseLine([displays |-> p_displays, current |-> current_display],
                           output[line_idx + 1])
       IN /\ p_displays' = st.displays
          /\ current_display' = st.current
    /\ line_idx' = line_idx + 1
    /\ UNCHANGED <<output, guiVars>>

NextParse == ParseStep

SpecParse == InitParse /\ [][NextParse]_vars

----------------------------------------------------------------------------
(* The query command and refresh_displays *)

None == "None"

Max2(a, b) == IF a >= b THEN a ELSE b
Min2(a, b) == IF a <= b THEN a ELSE b
MinOf(S) == CHOOSE m \in S : \A n \in S : m <= n

\* a status bar message: the text of the f-string and the display it names
Msg(t, n) == [text |-> t, name |-> n]

\* what subprocess.run(['xrandr', '--query'], ...) does: it raises, or it
\* returns with the text of stdout (the return code is not looked at)
QueryOk(lines) == [raised |-> FALSE, returncode |-> 0, stdout |-> lines]
QueryFailed(lines) == [raised |-> FALSE, returncode |-> 1, stdout |-> lines]
QueryRaised == [raised |-> TRUE, returncode |-> 0, stdout |-> <<>>]

\* the outcomes of the query that Spec draws from: three outputs side by
\* side, the first two mirrored, no text at all, a non-zero return code
\* without text and after the text of one output, and a failure to launch
QueryResults ==
    { QueryOk(<< Line(0, <<"Screen", "0:">>),
                 Line(0, <<"A", "connected", "primary", "1920x1080+0+0">>),
                 Line(3, <<"1920x1080", "60.00*+", "59.94">>),
                 Line(3, <<"1280x720", "59.94">>),
                 Line(0, <<"B", "connected", "1280x720+1920+0">>),
                 Line(3, <<"1280x720", "60.00*+">>),
                 Line(0, <<"C", "connected", "1280x720+3200+0">>),
                 Line(3, <<"1280x720", "60.00*+">>),
                 Line(0, <<"D", "disconnected", "(normal">>) >>),
      QueryOk(<< Line(0, <<"A", "connected", "primary", "1920x1080+0+0">>),
                 Line(3, <<"1920x1080", "60.00*+", "59.94">>),
                 Line(0, <<"B", "connected", "1280x720+0+0">>),
                 Line(3, <<"1280x720", "60.00*+">>),
                 Line(0, <<"C", "connected", "1280x720+1920+0">>),
                 Line(3, <<"1280x720", "60.00*+">>) >>),
      QueryOk(<<>>),
      QueryFailed(<<>>),
      QueryFailed(<< Line(0, <<"Screen", "0:">>),
                     Line(0, <<"A", "connected", "primary", "1920x1080+0+0">>),
                     Line(3, <<"1920x1080", "60.00*+", "59.94">>) >>),
      QueryRaised }

\* lines 454-459: the text the loop runs on
QueryLines(q) == IF q.raised THEN <<>> ELSE q.stdout

RECURSIVE SumWidth(_)
SumWidth(ds) == IF ds = <<>> THEN 0 ELSE ds[1].width + SumWidth(Tail(ds))

\* line 528
TotalWidth(ds) == SumWidth(ds) + 100 * (Len(ds) - 1)

\* int(v * scale) with scale = min(0.15, 700 / total_width), line 529
Scaled(ds, v) ==
    LET t == TotalWidth(ds)
    IN IF 3 * t > 14000 THEN (v * 700) \div t ELSE (v * 3) \div 20

\* DisplayWidget(display, scale) put at (x_pos, y_pos), lines 34-55, 537-544
NewWidget(ds, i) ==
    LET min_x == MinOf({ds[k].x : k \in 1..Len(ds)})
        min_y == MinOf({ds[k].y : k \in 1..Len(ds)})
    IN [name |-> ds[i].name,
        x |-> Scaled(ds, ds[i].x - min_x) + 20 + (i - 1) * 10,
        y |-> Scaled(ds, ds[i].y - min_y) + 20,
        width |-> Max2(Scaled(ds, ds[i].width), 100),
        height |-> Max2(Scaled(ds, ds[i].height), 60),
        dragging |-> FALSE,
        has_pending_changes |-> FALSE,
        is_mirrored |-> FALSE,
        mirrored_with |-> <<>>]

\* index of the entry of a name-keyed dict (a sequence of records with a
\* name field), 0 if the key is absent
KeyIndex(dict, n) ==
    IF \E i \in 1..Len(dict) : dict[i].name = n
    THEN CHOOSE i \in 1..Len(dict) : dict[i].name = n
    ELSE 0

\* DictPut that leaves the value of a key that is present
DictPutKeepFirst(dict, rec) ==
    IF KeyIndex(dict, rec.name) # 0 THEN dict ELSE Append(dict, rec)

\* dict[rec.name] = rec
DictPut(dict, rec) ==
    IF KeyIndex(dict, rec.name) # 0
    THEN [dict EXCEPT ![KeyIndex(dict, rec.name)] = rec]
    ELSE Append(dict, rec)

\* the loop of lines 536-545
RECURSIVE BuildWidgets(_, _, _)
BuildWidgets(ds, i, dict) ==
    IF i > Len(ds) THEN dict
    ELSE BuildWidgets(ds, i + 1, DictPut(dict, NewWidget(ds, i)))

\* _find_mirrored_display_groups: position_groups as a sequence of
\* [pos, names], then its values
RECURSIVE PositionGroupsSingletons(_, _, _)
\* PositionGroups without the "if pos not in position_groups" test: every
\* display opens a group
PositionGroupsSingletons(ds, i, groups) ==
    IF i > Len(ds) THEN groups
    ELSE PositionGroupsSingletons(ds, i + 1,
             Append(groups, [pos |-> <<ds[i].x, ds[i].y>>,
                             names |-> <<ds[i].name>>]))

RECURSIVE PositionGroups(_, _, _)
PositionGroups(ds, i, groups) ==
    IF i > Len(ds) THEN groups
    ELSE LET pos == <<ds[i].x, ds[i].y>>
             S == {g \in 1..Len(groups) : groups[g].pos = pos}
         IN PositionGroups(ds, i + 1,
                IF S = {}
                THEN Append(groups, [pos |-> pos, names |-> <<ds[i].name>>])
                ELSE LET g == CHOOSE k \in S : TRUE
                     IN [groups EXCEPT ![g].names = Append(@, ds[i].name)])

find_mirrored_display_groups(ds) ==
    LET groups == PositionGroups(ds, 1, <<>>)
    IN [g \in 1..Len(groups) |-> groups[g].names]

\* [n for n in group if n != display_name]
Without(group, n) == SelectSeq(group, LAMBDA m : m # n)

\* lines 548-558 on the widget of one name: the last group of more than
\* one display that holds the name decides mirrored_with
MarkMirrored(w, groups) ==
    LET S == {g \in 1..Len(groups) :
                 Len(groups[g]) > 1 /\ InSeq(w.name, groups[g])}
    IN IF S = {} THEN w
       ELSE LET g == CHOOSE k \in S : \A j \in S : j <= k
            IN [w EXCEPT !.is_mirrored = TRUE,
                         !.mirrored_with = Without(groups[g], w.name)]

\* parse_xrandr_output on the outcome q of the query: the locals it ends
\* with (the loop does not run when the query raised)
parse_xrandr_output(q) ==
    ParseLines([displays |-> <<>>, current |-> 0], QueryLines(q), 1)

\* what refresh_displays computes from the outcome q of the query alone:
\* the parse, the widgets of lines 527-545 and the marks of lines 548-558
FreshLayout(q) ==
    LET st == parse_xrandr_output(q)
        ds == st.displays
        groups == find_mirrored_display_groups(ds)
        widgets == BuildWidgets(ds, 1, <<>>)
    IN [output |-> QueryLines(q),
        current_display |-> st.current,
        displays |-> ds,
        display_widgets |->
            [i \in 1..Len(widgets) |-> MarkMirrored(widgets[i], groups)],
        has_mirrored |-> \E g \in 1..Len(groups) : Len(groups[g]) > 1]

\* FreshLayout, tabulated over the outcomes Spec draws from
FreshLayouts == [q \in QueryResults |-> FreshLayout(q)]

\* refresh_displays on the outcome q of the query: the fields it leaves,
\* given the pending changes and the button states it finds
RefreshDisplays(q, pending, apply_btn, unlink_btn) ==
    LET f == FreshLayouts[q]
        err == IF q.raised THEN <<Msg("Error running xrandr", "")>> ELSE <<>>
    IN IF f.displays = <<>>
       THEN \* the early return of lines 521-525
            [output |-> f.output,
             current_display |-> f.current_display,
             displays |-> f.displays,
             display_widgets |-> <<>>,
             unlink_mirror_btn |-> unlink_btn,
             pending_layout_changes |-> pending,
             apply_layout_btn |-> apply_btn,
             shown |-> err \o <<Msg("No displays found", "")>>]
       ELSE [output |-> f.output,
             current_display |-> f.current_display,
             displays |-> f.displays,
             display_widgets |-> f.display_widgets,
             unlink_mirror_btn |-> f.has_mirrored,
             pending_layout_changes |-> <<>>,
             apply_layout_btn |-> FALSE,
             shown |-> err \o <<Msg("Found connected display(s)", "")>>]

----------------------------------------------------------------------------
(* Spec: the window and its handlers *)

\* __init__: setup_ui, then refresh_displays
Init ==
    \E q \in QueryResults :
        LET r == RefreshDisplays(q, <<>>, FALSE, FALSE)
        IN /\ output = r.output
           /\ line_idx = Len(r.output)
           /\ p_displays = r.displays
           /\ current_display = r.current_display
           /\ displays = r.displays
           /\ display_widgets = r.display_widgets
           /\ source_display = None
           /\ target_display = None
           /\ pending_layout_changes = r.pending_layout_changes
           /\ mirror_btn = FALSE
           /\ extend_right_btn = FALSE
           /\ extend_left_btn = FALSE
           /\ apply_layout_btn = r.apply_layout_btn
           /\ unlink_mirror_btn = r.unlink_mirror_btn
           /\ timeouts = 0
           /\ event = [op |-> "init"]
           /\ commands = <<>>
           /\ shown = r.shown
           /\ dialogs = <<>>
           /\ n_drags = 0

WidgetNames == {display_widgets[i].name : i \in 1..Len(display_widgets)}

WidgetOf(n) == display_widgets[KeyIndex(display_widgets, n)]

\* the widget that holds the pointer: GTK delivers the pointer events that
\* follow a button-1 press to the pressed widget until the button is
\* released, so no other widget or button is clicked meanwhile
Grabbed == {n \in WidgetNames : WidgetOf(n).dragging}

\* update_action_buttons, with the selection the handler leaves
update_action_buttons(src, tgt) ==
    LET has_both == src # None /\ tgt # None
    IN /\ mirror_btn' = has_both
       /\ extend_right_btn' = has_both
       /\ extend_left_btn' = has_both

\* DisplayClicked without the branch that deselects the source (lines 608-614)
DisplayClickedNoDeselect(n) ==
    IF source_display = None
    THEN /\ source_display' = n
         /\ shown' = <<Msg("Selected as source", n)>>
         /\ UNCHANGED <<target_display, mirror_btn, extend_right_btn, extend_left_btn>>
    ELSE IF target_display = None /\ n # source_display
    THEN /\ target_display' = n
         /\ update_action_buttons(source_display, n)
         /\ shown' = <<Msg("Selected as target", n)>>
         /\ UNCHANGED source_display
    ELSE IF n = target_display
    THEN /\ target_display' = None
         /\ update_action_buttons(source_display, None)
         /\ shown' = <<>>
         /\ UNCHANGED source_display
    ELSE /\ shown' = <<>>
         /\ UNCHANGED <<source_display, target_display, mirror_btn,
                        extend_right_btn, extend_left_btn>>

\* DisplayClicked without the "display.name != self.source_display.name"
\* test of line 600
DisplayClickedAnyTarget(n) ==
    IF source_display = None
    THEN /\ source_display' = n
         /\ shown' = <<Msg("Selected as source", n)>>
         /\ UNCHANGED <<target_display, mirror_btn, extend_right_btn, extend_left_btn>>
    ELSE IF target_display = None
    THEN /\ target_display' = n
         /\ update_action_buttons(source_display, n)
         /\ shown' = <<Msg("Selected as target", n)>>
         /\ UNCHANGED source_display
    ELSE IF n = source_display
    THEN /\ source_display' = None
         /\ update_action_buttons(None, target_display)
         /\ shown' = <<>>
         /\ UNCHANGED target_display
    ELSE IF n = target_display
    THEN /\ target_display' = None
         /\ update_action_buttons(source_display, None)
         /\ shown' = <<>>
         /\ UNCHANGED source_display
    ELSE /\ shown' = <<>>
         /\ UNCHANGED <<source_display, target_display, mirror_btn,
                        extend_right_btn, extend_left_btn>>

\* on_display_clicked(widget, event, display): the selection, the buttons
\* and the status message it leaves
DisplayClicked(n) ==
    IF source_display = None
    THEN /\ source_display' = n
         /\ shown' = <<Msg("Selected as source", n)>>
         /\ UNCHANGED <<target_display, mirror_btn, extend_right_btn, extend_left_btn>>
    ELSE IF target_display = None /\ n # source_display
    THEN /\ target_display' = n
         /\ update_action_buttons(source_display, n)
         /\ shown' = <<Msg("Selected as target", n)>>
         /\ UNCHANGED source_display
    ELSE IF n = source_display
    THEN /\ source_display' = None
         /\ update_action_buttons(None, target_display)
         /\ shown' = <<>>
         /\ UNCHANGED target_display
    ELSE IF n = target_display
    THEN /\ target_display' = None
         /\ update_action_buttons(source_display, None)
         /\ shown' = <<>>
         /\ UNCHANGED source_display
    ELSE /\ shown' = <<>>
         /\ UNCHANGED <<source_display, target_display, mirror_btn,
                        extend_right_btn, extend_left_btn>>

\* a button-press-event on the widget of display n: DisplayWidget's
\* on_button_press, then on_display_clicked (connected after it, line 538)
ButtonPress(n, button, max_drags) ==
    /\ n \in WidgetNames
    /\ Grabbed = {}
    /\ button = 1 => n_drags < max_drags
    /\ display_widgets' =
           IF button = 1
           THEN [display_widgets EXCEPT
                    ![KeyIndex(display_widgets, n)].dragging = TRUE]
           ELSE display_widgets
    /\ n_drags' = IF button = 1 THEN n_drags + 1 ELSE n_drags
    /\ DisplayClicked(n)
    /\ event' = [op |-> "button_press", name |-> n, button |-> button]
    /\ commands' = <<>>
    /\ dialogs' = <<>>
    /\ UNCHANGED <<parseVars, displays, pending_layout_changes,
                   apply_layout_btn, unlink_mirror_btn, timeouts>>

\* on_clear_clicked
ClearClicked ==
    /\ Grabbed = {}
    /\ source_display' = None
    /\ target_display' = None
    /\ update_action_buttons(None, None)
    /\ shown' = <<Msg("Selection cleared", "")>>
    /\ event' = [op |-> "clear"]
    /\ commands' = <<>>
    /\ dialogs' = <<>>
    /\ UNCHANGED <<parseVars, displays, display_widgets, pending_layout_changes,
                   apply_layout_btn, unlink_mirror_btn, timeouts, n_drags>>

\* the fields refresh_displays writes, on the outcome q of the query, and the
\* messages it pushes after those in "before"
Refreshed(q, before) ==
    \E r \in {RefreshDisplays(q, pending_layout_changes, apply_layout_btn,
                              unlink_mirror_btn)} :
        /\ output' = r.output
        /\ line_idx' = Len(r.output)
        /\ p_displays' = r.displays
        /\ current_display' = r.current_display
        /\ displays' = r.displays
        /\ display_widgets' = r.display_widgets
        /\ unlink_mirror_btn' = r.unlink_mirror_btn
        /\ pending_layout_changes' = r.pending_layout_changes
        /\ apply_layout_btn' = r.apply_layout_btn
        /\ shown' = before \o r.shown
        /\ n_drags' = 0

\* on_refresh_clicked: on_clear_clicked, then refresh_displays
RefreshClicked(q) ==
    /\ Grabbed = {}
    /\ source_display' = None
    /\ target_display' = None
    /\ update_action_buttons(None, None)
    /\ Refreshed(q, <<Msg("Selection cleared", "")>>)
    /\ event' = [op |-> "refresh_clicked", raised |-> q.raised,
                 returncode |-> q.returncode]
    /\ commands' = <<>>
    /\ dialogs' = <<>>
    /\ UNCHANGED timeouts

\* a GLib timeout fires: refresh_displays alone, which returns None, so the
\* source is removed
TimeoutRefresh(q) ==
    /\ timeouts > 0
    /\ timeouts' = timeouts - 1
    /\ Refreshed(q, <<>>)
    /\ event' = [op |-> "timeout_refresh", raised |-> q.raised,
                 returncode |-> q.returncode]
    /\ commands' = <<>>
    /\ dialogs' = <<>>
    /\ UNCHANGED <<source_display, target_display, mirror_btn,
                   extend_right_btn, extend_left_btn>>

----------------------------------------------------------------------------
(* Dragging and the snap engine *)

\* self.display_container.set_size_request(800, 300), line 286
ContainerWidth == 800
ContainerHeight == 300

\* snap_threshold, line 711
snap_threshold == 50

\* where the pointer may take a dragged widget: (new_x, new_y) of lines
\* 221-222, before they are clamped to the container
DropPoints == { <<300, 30>>, <<900, 400>> }

\* the same for SpecLayout, with a point at the distance 150 from the
\* nearest candidate of the third widget
LayoutDropPoints == DropPoints \cup { <<598, 140>> }

\* on_motion_notify on the widget of display n
MotionNotify(n, p) ==
    /\ n \in WidgetNames
    /\ WidgetOf(n).dragging
    /\ LET w == WidgetOf(n)
           new_x == Max2(0, Min2(p[1], ContainerWidth - w.width))
           new_y == Max2(0, Min2(p[2], ContainerHeight - w.height))
       IN display_widgets' =
              [display_widgets EXCEPT
                  ![KeyIndex(display_widgets, n)] =
                      [w EXCEPT !.x = new_x, !.y = new_y]]
    /\ event' = [op |-> "motion", name |-> n]
    /\ commands' = <<>>
    /\ shown' = <<>>
    /\ dialogs' = <<>>
    /\ UNCHANGED <<parseVars, displays, source_display, target_display,
                   pending_layout_changes, mirror_btn, extend_right_btn,
                   extend_left_btn, apply_layout_btn, unlink_mirror_btn,
                   timeouts, n_drags>>

\* snap_positions of lines 721-730, for the dragged widget w and another
SnapPositions(w, other) ==
    << [direction |-> "right-of", x |-> other.x + other.width, y |-> other.y,
        relative_to |-> other.name],
       [direction |-> "left-of", x |-> other.x - w.width, y |-> other.y,
        relative_to |-> other.name],
       [direction |-> "above", x |-> other.x, y |-> other.y - w.height,
        relative_to |-> other.name],
       [direction |-> "below", x |-> other.x, y |-> other.y + other.height,
        relative_to |-> other.name] >>

\* the candidates in the order the two loops of lines 713-732 visit them
RECURSIVE AllSnapPositions(_, _, _)
AllSnapPositions(widgets, w, i) ==
    IF i > Len(widgets) THEN <<>>
    ELSE (IF widgets[i].name = w.name THEN <<>>
          ELSE SnapPositions(w, widgets[i]))
         \o AllSnapPositions(widgets, w, i + 1)

\* dx * dx + dy * dy of line 736; the distance is its square root
Dist2(w, c) == (w.x - c.x) * (w.x - c.x) + (w.y - c.y) * (w.y - c.y)

RECURSIVE ScanSnapsLastWins(_, _, _, _)
\* ScanSnaps with "distance <= min_distance" in the test of line 738
ScanSnapsLastWins(w, cands, i, best) ==
    IF i > Len(cands) THEN best
    ELSE LET d == Dist2(w, cands[i])
             closer == best = 0 \/ d <= Dist2(w, cands[best])
             near == d < (snap_threshold * 3) * (snap_threshold * 3)
         IN ScanSnapsLastWins(w, cands, i + 1, IF closer /\ near THEN i ELSE best)

RECURSIVE ScanSnapsInclusive(_, _, _, _)
\* ScanSnaps with "distance <= snap_threshold * 3" in the test of line 738
ScanSnapsInclusive(w, cands, i, best) ==
    IF i > Len(cands) THEN best
    ELSE LET d == Dist2(w, cands[i])
             closer == best = 0 \/ d < Dist2(w, cands[best])
             near == d <= (snap_threshold * 3) * (snap_threshold * 3)
         IN ScanSnapsInclusive(w, cands, i + 1, IF closer /\ near THEN i ELSE best)

\* the scan of lines 732-740: best is the index of best_snap among the
\* candidates, 0 for None; distances are compared by their squares
RECURSIVE ScanSnaps(_, _, _, _)
ScanSnaps(w, cands, i, best) ==
    IF i > Len(cands) THEN best
    ELSE LET d == Dist2(w, cands[i])
             closer == best = 0 \/ d < Dist2(w, cands[best])
             near == d < (snap_threshold * 3) * (snap_threshold * 3)
         IN ScanSnaps(w, cands, i + 1, IF closer /\ near THEN i ELSE best)

\* best_snap for the widget of display n, as [found, x, y, ...]
BestSnap(widgets, n) ==
    LET w == widgets[KeyIndex(widgets, n)]
        cands == AllSnapPositions(widgets, w, 1)
        best == ScanSnaps(w, cands, 1, 0)
    IN IF best = 0
       THEN [found |-> FALSE, x |-> 0, y |-> 0, relative_to |-> None,
             direction |-> None]
       ELSE [found |-> TRUE, x |-> cands[best].x, y |-> cands[best].y,
             relative_to |-> cands[best].relative_to,
             direction |-> cands[best].direction]

\* _would_overlap that finds no overlap anywhere
would_overlap_never(widgets, n, new_x, new_y) == FALSE

\* _would_overlap(dragged_widget, new_x, new_y)
would_overlap(widgets, n, new_x, new_y) ==
    LET w == widgets[KeyIndex(widgets, n)]
    IN \E i \in 1..Len(widgets) :
          /\ widgets[i].name # n
          /\ new_x < widgets[i].x + widgets[i].width
          /\ new_x + w.width > widgets[i].x
          /\ new_y < widgets[i].y + widgets[i].height
          /\ new_y + w.height > widgets[i].y

\* test_positions, line 788
test_positions == << <<20, 20>>, <<200, 20>>, <<400, 20>>, <<20, 150>>, <<200, 150>> >>

\* _find_non_overlapping_position that takes the last free position of
\* the list
find_non_overlapping_position_last(widgets, n) ==
    LET S == {i \in 1..Len(test_positions) :
                 ~would_overlap(widgets, n, test_positions[i][1],
                                test_positions[i][2])}
        k == KeyIndex(widgets, n)
    IN IF S = {} THEN widgets
       ELSE LET i == CHOOSE j \in S : \A m \in S : m <= j
            IN [widgets EXCEPT ![k].x = test_positions[i][1],
                               ![k].y = test_positions[i][2]]

\* _find_non_overlapping_position(widget): the widgets it leaves
find_non_overlapping_position(widgets, n) ==
    LET S == {i \in 1..Len(test_positions) :
                 ~would_overlap(widgets, n, test_positions[i][1],
                                test_positions[i][2])}
        k == KeyIndex(widgets, n)
    IN IF S = {} THEN widgets
       ELSE LET i == MinOf(S)
            IN [widgets EXCEPT ![k].x = test_positions[i][1],
                               ![k].y = test_positions[i][2]]

\* snap_widget_position without the _would_overlap test of line 746
snap_widget_position_unchecked(widgets, pending, apply_btn, n) ==
    LET k == KeyIndex(widgets, n)
        best == BestSnap(widgets, n)
    IN IF best.found
       THEN [widgets |-> [widgets EXCEPT ![k].x = best.x, ![k].y = best.y,
                                         ![k].has_pending_changes = TRUE],
             pending |-> DictPut(pending,
                             [name |-> n,
                              relative_to |-> best.relative_to,
                              direction |-> best.direction]),
             apply_btn |-> TRUE,
             shown |-> <<Msg("Snapped " \o best.direction \o " " \o
                             best.relative_to, n)>>]
       ELSE [widgets |-> find_non_overlapping_position(widgets, n),
             pending |-> pending, apply_btn |-> apply_btn, shown |-> <<>>]

\* snap_widget_position without the set_sensitive(True) of line 756
snap_widget_position_no_enable(widgets, pending, apply_btn, n) ==
    LET k == KeyIndex(widgets, n)
        best == BestSnap(widgets, n)
    IN IF best.found
       THEN IF ~would_overlap(widgets, n, best.x, best.y)
            THEN [widgets |-> [widgets EXCEPT ![k].x = best.x, ![k].y = best.y,
                                              ![k].has_pending_changes = TRUE],
                  pending |-> DictPut(pending,
                                  [name |-> n,
                                   relative_to |-> best.relative_to,
                                   direction |-> best.direction]),
                  apply_btn |-> apply_btn,
                  shown |-> <<Msg("Snapped " \o best.direction \o " " \o
                                  best.relative_to, n)>>]
            ELSE [widgets |-> widgets, pending |-> pending,
                  apply_btn |-> apply_btn, shown |-> <<>>]
       ELSE [widgets |-> find_non_overlapping_position(widgets, n),
             pending |-> pending, apply_btn |-> apply_btn, shown |-> <<>>]

\* snap_widget_position(dragged_widget) on the widget of display n: the
\* widgets, the pending changes, the apply button and the messages it leaves
snap_widget_position(widgets, pending, apply_btn, n) ==
    LET k == KeyIndex(widgets, n)
        best == BestSnap(widgets, n)
    IN IF best.found
       THEN IF ~would_overlap(widgets, n, best.x, best.y)
            THEN [widgets |-> [widgets EXCEPT ![k].x = best.x, ![k].y = best.y,
                                              ![k].has_pending_changes = TRUE],
                  pending |-> DictPut(pending,
                                  [name |-> n,
                                   relative_to |-> best.relative_to,
                                   direction |-> best.direction]),
                  apply_btn |-> TRUE,
                  shown |-> <<Msg("Snapped " \o best.direction \o " " \o
                                  best.relative_to, n)>>]
            ELSE [widgets |-> widgets, pending |-> pending,
                  apply_btn |-> apply_btn, shown |-> <<>>]
       ELSE [widgets |-> find_non_overlapping_position(widgets, n),
             pending |-> pending, apply_btn |-> apply_btn, shown |-> <<>>]

\* a button-release-event of button 1 on the dragged widget of display n:
\* on_button_release, which calls snap_widget_position
ButtonRelease(n) ==
    /\ n \in WidgetNames
    /\ WidgetOf(n).dragging
    /\ LET dropped == [display_widgets EXCEPT
                          ![KeyIndex(display_widgets, n)].dragging = FALSE]
           r == snap_widget_position(dropped, pending_layout_changes,
                                     apply_layout_btn, n)
       IN /\ display_widgets' = r.widgets
          /\ pending_layout_changes' = r.pending
          /\ apply_layout_btn' = r.apply_btn
          /\ shown' = r.shown
    /\ event' = [op |-> "button_release", name |-> n,
                 x |-> WidgetOf(n).x, y |-> WidgetOf(n).y,
                 old |-> SelectSeq(pending_layout_changes,
                                   LAMBDA e : e.name = n)]
    /\ commands' = <<>>
    /\ dialogs' = <<>>
    /\ UNCHANGED <<parseVars, displays, source_display, target_display,
                   mirror_btn, extend_right_btn, extend_left_btn,
                   unlink_mirror_btn, timeouts, n_drags>>

----------------------------------------------------------------------------
(* The configuration commands *)

\* how one subprocess.run of a configuring command ends: return code 0, a
\* non-zero return code with or without text on stderr, or an exception
Outcomes == {"ok", "nonzero", "nonzero_silent", "raised"}

\* the same as on_unlink_mirror_clicked sees them: it does not read stderr
UnlinkOutcomes == {"ok", "nonzero", "raised"}

\* result.stderr.strip() or "Unknown error"
ErrorText(outcome) ==
    IF outcome = "nonzero_silent" THEN "Unknown error" ELSE "stderr text"

\* one invocation: ['xrandr', ..., '--output', out, option, arg, ...] and
\* how it ended
Cmd(out, option, arg, outcome) ==
    [output |-> out, option |-> option, arg |-> arg, outcome |-> outcome]

\* run_xrandr_command without the GLib.timeout_add of line 887
run_xrandr_command_no_refresh(description, outcome) ==
    /\ shown' =
           <<Msg(description \o "...", "")>> \o
           (IF outcome = "ok" THEN <<Msg(description \o " - Success!", "")>>
            ELSE IF outcome = "raised" THEN <<Msg("Error: Error: exception", "")>>
            ELSE <<Msg("Error: xrandr failed: " \o ErrorText(outcome), "")>>)
    /\ dialogs' =
           IF outcome = "ok" THEN <<>>
           ELSE IF outcome = "raised" THEN <<"Error: exception">>
           ELSE <<"xrandr failed: " \o ErrorText(outcome)>>
    /\ timeouts' = timeouts

\* run_xrandr_command with the GLib.timeout_add of line 887 after the
\* try statement
run_xrandr_command_refresh_always(description, outcome) ==
    /\ shown' =
           <<Msg(description \o "...", "")>> \o
           (IF outcome = "ok" THEN <<Msg(description \o " - Success!", "")>>
            ELSE IF outcome = "raised" THEN <<Msg("Error: Error: exception", "")>>
            ELSE <<Msg("Error: xrandr failed: " \o ErrorText(outcome), "")>>)
    /\ dialogs' =
           IF outcome = "ok" THEN <<>>
           ELSE IF outcome = "raised" THEN <<"Error: exception">>
           ELSE <<"xrandr failed: " \o ErrorText(outcome)>>
    /\ timeouts' = timeouts + 1

\* run_xrandr_command and show_error: the messages, the dialogs and the
\* timeouts they leave
run_xrandr_command(description, outcome) ==
    /\ shown' =
           <<Msg(description \o "...", "")>> \o
           (IF outcome = "ok" THEN <<Msg(description \o " - Success!", "")>>
            ELSE IF outcome = "raised" THEN <<Msg("Error: Error: exception", "")>>
            ELSE <<Msg("Error: xrandr failed: " \o ErrorText(outcome), "")>>)
    /\ dialogs' =
           IF outcome = "ok" THEN <<>>
           ELSE IF outcome = "raised" THEN <<"Error: exception">>
           ELSE <<"xrandr failed: " \o ErrorText(outcome)>>
    /\ timeouts' = IF outcome = "ok" THEN timeouts + 1 ELSE timeouts

\* on_mirror_clicked, on_extend_right_clicked and on_extend_left_clicked
\* differ in the option and the description only.  The --mode and --rate
\* arguments are read from the two combo boxes and are left out.
SelectionCommand(op, option, description, outcome) ==
    /\ Grabbed = {}
    /\ outcome = "ok" => timeouts < MaxTimeouts
    /\ event' = [op |-> op, outcome |-> outcome]
    /\ IF source_display = None \/ target_display = None
       THEN /\ commands' = <<>>
            /\ shown' = <<>>
            /\ dialogs' = <<>>
            /\ UNCHANGED timeouts
       ELSE /\ commands' = <<Cmd(target_display, option, source_display, outcome)>>
            /\ run_xrandr_command(description, outcome)
    /\ UNCHANGED <<parseVars, displays, display_widgets, source_display,
                   target_display, pending_layout_changes, mirror_btn,
                   extend_right_btn, extend_left_btn, apply_layout_btn,
                   unlink_mirror_btn, n_drags>>

MirrorClicked(outcome) ==
    /\ mirror_btn
    /\ SelectionCommand("mirror", "--same-as", "Mirroring", outcome)

ExtendRightClicked(outcome) ==
    /\ extend_right_btn
    /\ SelectionCommand("extend_right", "--right-of", "Extending to the right", outcome)

ExtendLeftClicked(outcome) ==
    /\ extend_left_btn
    /\ SelectionCommand("extend_left", "--left-of", "Extending to the left", outcome)

RECURSIVE ApplyLoop(_, _, _, _)

\* ApplyLoop leaving the loop at the first invocation that fails
ApplyLoopStopOnFailure(pending, outs, i, acc) ==
    IF i > Len(pending) \/ (i > 1 /\ outs[i - 1] # "ok") THEN acc
    ELSE LET e == pending[i]
             c == Cmd(e.name, "--" \o e.direction, e.relative_to, outs[i])
         IN ApplyLoop(pending, outs, i + 1,
                [commands |-> Append(acc.commands, c),
                 shown |-> acc.shown,
                 success_count |->
                     IF outs[i] = "ok" THEN acc.success_count + 1
                     ELSE acc.success_count])

\* the loop of lines 801-812 from entry i on; acc = [commands, shown,
\* success_count]
ApplyLoop(pending, outs, i, acc) ==
    IF i > Len(pending) THEN acc
    ELSE LET e == pending[i]
             c == Cmd(e.name, "--" \o e.direction, e.relative_to, outs[i])
         IN ApplyLoop(pending, outs, i + 1,
                [commands |-> Append(acc.commands, c),
                 shown |->
                     IF outs[i] = "ok" THEN acc.shown
                     ELSE IF outs[i] = "raised"
                     THEN Append(acc.shown, Msg("Error positioning", e.name))
                     ELSE Append(acc.shown,
                              Msg("Failed to position: " \o ErrorText(outs[i]),
                                  e.name)),
                 success_count |->
                     IF outs[i] = "ok" THEN acc.success_count + 1
                     ELSE acc.success_count])

\* on_apply_layout_clicked; outs[i] is how the i-th invocation ends
ApplyLayoutClicked(outs) ==
    /\ apply_layout_btn
    /\ Grabbed = {}
    /\ event' = [op |-> "apply_layout"]
    /\ dialogs' = <<>>
    /\ IF pending_layout_changes = <<>>
       THEN /\ commands' = <<>>
            /\ shown' = <<>>
            /\ UNCHANGED <<pending_layout_changes, display_widgets,
                           apply_layout_btn, timeouts>>
       ELSE /\ timeouts < MaxTimeouts
            /\ LET r == ApplyLoop(pending_layout_changes, outs, 1,
                            [commands |-> <<>>, shown |-> <<>>,
                             success_count |-> 0])
               IN /\ commands' = r.commands
                  /\ shown' = IF r.success_count > 0
                              THEN Append(r.shown, Msg("Applied layout change(s)", ""))
                              ELSE r.shown
            /\ pending_layout_changes' = <<>>
            /\ display_widgets' =
                   [i \in 1..Len(display_widgets) |->
                       [display_widgets[i] EXCEPT !.has_pending_changes = FALSE]]
            /\ apply_layout_btn' = FALSE
            /\ timeouts' = timeouts + 1
    /\ UNCHANGED <<parseVars, displays, source_display, target_display,
                   mirror_btn, extend_right_btn, extend_left_btn,
                   unlink_mirror_btn, n_drags>>

\* _find_mirrored_displays
RECURSIVE Flatten(_)
Flatten(groups) ==
    IF groups = <<>> THEN <<>>
    ELSE (IF Len(groups[1]) > 1 THEN groups[1] ELSE <<>>) \o Flatten(Tail(groups))

find_mirrored_displays(ds) == Flatten(find_mirrored_display_groups(ds))

\* UnlinkCommand with every later display put right of the first one
UnlinkCommandRightOfFirst(ds, i, outcome) ==
    IF i = 1 THEN Cmd(ds[i].name, "--pos", "0x0", outcome)
    ELSE Cmd(ds[i].name, "--right-of", ds[1].name, outcome)

\* the commands of lines 837-844
UnlinkCommand(ds, i, outcome) ==
    IF i = 1 THEN Cmd(ds[i].name, "--pos", "0x0", outcome)
    ELSE Cmd(ds[i].name, "--right-of", ds[i - 1].name, outcome)

\* the loop of lines 846-852 from command i on; acc = [commands, shown]
RECURSIVE UnlinkLoop(_, _, _, _)
UnlinkLoop(ds, outs, i, acc) ==
    IF i > Len(ds) THEN acc
    ELSE UnlinkLoop(ds, outs, i + 1,
             [commands |-> Append(acc.commands, UnlinkCommand(ds, i, outs[i])),
              shown |->
                  IF outs[i] = "ok" THEN acc.shown
                  ELSE IF outs[i] = "raised"
                  THEN Append(acc.shown, Msg("Error unlinking", ds[i].name))
                  ELSE Append(acc.shown, Msg("Failed to unlink", ds[i].name))])

\* on_unlink_mirror_clicked; outs[i] is how the i-th invocation ends
UnlinkMirrorClicked(outs) ==
    /\ unlink_mirror_btn
    /\ Grabbed = {}
    /\ event' = [op |-> "unlink_mirror"]
    /\ dialogs' = <<>>
    /\ IF find_mirrored_displays(displays) = <<>>
       THEN /\ commands' = <<>>
            /\ shown' = <<Msg("No mirrored displays found", "")>>
            /\ UNCHANGED <<unlink_mirror_btn, timeouts>>
       ELSE /\ timeouts < MaxTimeouts
            /\ LET r == UnlinkLoop(displays, outs, 1,
                            [commands |-> <<>>, shown |-> <<>>])
               IN /\ commands' = r.commands
                  /\ shown' = Append(r.shown, Msg("Unlinked mirrored displays", ""))
            /\ unlink_mirror_btn' = FALSE
            /\ timeouts' = timeouts + 1
    /\ UNCHANGED <<parseVars, displays, display_widgets, source_display,
                   target_display, pending_layout_changes, mirror_btn,
                   extend_right_btn, extend_left_btn, apply_layout_btn, n_drags>>

Next ==
    \/ \E n \in WidgetNames, button \in {1, 3} : ButtonPress(n, button, MaxDrags)
    \/ \E n \in WidgetNames, p \in DropPoints : MotionNotify(n, p)
    \/ \E n \in WidgetNames : ButtonRelease(n)
    \/ ClearClicked
    \/ \E q \in QueryResults : RefreshClicked(q)
    \/ \E q \in QueryResults : TimeoutRefresh(q)
    \/ \E outcome \in Outcomes : MirrorClicked(outcome)
    \/ \E outcome \in Outcomes : ExtendRightClicked(outcome)
    \/ \E outcome \in Outcomes : ExtendLeftClicked(outcome)
    \/ \E outs \in [1..Len(pending_layout_changes) -> Outcomes] :
           ApplyLayoutClicked(outs)
    \/ \E outs \in [1..Len(displays) -> UnlinkOutcomes] : UnlinkMirrorClicked(outs)

Spec == Init /\ [][Next]_vars

\* Spec with the main loop of Gtk.main() running: a timeout that has been
\* added is dispatched
SpecLive == Spec /\ WF_vars(\E q \in QueryResults : TimeoutRefresh(q))

\* SpecLayout: the window under the gestures that arrange the layout (drags
\* with button 1, Apply Layout, the refreshes), with more drags per
\* generation of widgets than Spec.  The handlers left out (the selection
\* buttons, Clear Selection, Unlink Mirrored) write neither the widgets nor
\* the pending changes.
NextLayout ==
    \/ \E n \in WidgetNames : ButtonPress(n, 1, MaxLayoutDrags)
    \/ \E n \in WidgetNames, p \in LayoutDropPoints : MotionNotify(n, p)
    \/ \E n \in WidgetNames : ButtonRelease(n)
    \/ \E q \in QueryResults : RefreshClicked(q)
    \/ \E q \in QueryResults : TimeoutRefresh(q)
    \/ \E outs \in [1..Len(pending_layout_changes) -> Outcomes] :
           ApplyLayoutClicked(outs)

SpecLayout == Init /\ [][NextLayout]_vars

----------------------------------------------------------------------------
(* Properties of the parser, stated on the text that has been consumed *)

\* a line of the shape "<name> connected|disconnected ..."
IsHeader(l) ==
    l.indent = 0 /\ Len(l.toks) >= 2 /\ l.toks[2] \in {"connected", "disconnected"}

IsConnectedHeader(l) == IsHeader(l) /\ l.toks[2] = "connected"

\* an indented line "   WxH rate ..."
IsModeLine(l) ==
    /\ l.indent >= 3
    /\ Len(l.toks) >= 2
    /\ l.toks[1] \in DOMAIN Res
    /\ l.toks[2] \in DOMAIN RateTok

\* a mode line one of whose rates carries the '*' marker
IsMarkedLine(l) == IsModeLine(l) /\ \E i \in 2..Len(l.toks) : l.toks[i] \in StarTokens

\* the rate the marker of a marked line is attached to
MarkedRate(l) ==
    LET i == CHOOSE k \in 2..Len(l.toks) :
                 /\ l.toks[k] \in StarTokens
                 /\ \A j \in 2..(k - 1) : l.toks[j] \notin StarTokens
    IN RateTok[l.toks[i]].num

ConsumedConnectedHeaders == {k \in 1..line_idx : IsConnectedHeader(output[k])}

\* the input line that holds the header of the i-th connected monitor
HeaderLineOf(i) ==
    CHOOSE k \in ConsumedConnectedHeaders :
        Cardinality({j \in ConsumedConnectedHeaders : j <= k}) = i

\* the consumed lines of the i-th connected monitor's section: those after
\* its header and before the next header line of any monitor
SectionOf(i) ==
    {m \in (HeaderLineOf(i) + 1)..line_idx :
        \A j \in (HeaderLineOf(i) + 1)..m : ~IsHeader(output[j])}

ParsedMonitors ==
    {i \in 1..Len(p_displays) : i <= Cardinality(ConsumedConnectedHeaders)}

\* C8: the active list is exactly the connected header lines, in input
\* order; a disconnected header yields no entry, with or without geometry,
\* and every monitor of the list has is_connected = TRUE.
C8_ActiveListIsConnectedHeaders ==
    LET hs == SelectSeq(SubSeq(output, 1, line_idx), IsConnectedHeader) IN
    /\ Len(p_displays) = Len(hs)
    /\ \A i \in 1..Len(p_displays) :
          /\ p_displays[i].name = hs[i].toks[1]
          /\ p_displays[i].is_connected

\* C8 witness: a whole output has been parsed that holds a disconnected
\* header with a geometry token between two connected headers.
C8_Witness ==
    /\ line_idx = Len(output)
    /\ Len(p_displays) = 2
    /\ \E k \in 2..(Len(output) - 1) :
          /\ IsHeader(output[k])
          /\ output[k].toks[2] = "disconnected"
          /\ output[k].toks[3] \in DOMAIN Geom
          /\ IsConnectedHeader(output[k - 1])
          /\ IsConnectedHeader(output[k + 1])

\* C9: the mode list of every parsed monitor has no duplicate, holds every
\* WxH token of the mode lines of the monitor's section, and holds them in
\* the order of their first appearance.
C9_ModesDistinctInFirstAppearanceOrder ==
    \A i \in ParsedMonitors :
        LET modes == p_displays[i].modes
            ML == {m \in SectionOf(i) : IsModeLine(output[m])}
            First(t) == CHOOSE m \in ML :
                            /\ output[m].toks[1] = t
                            /\ \A n \in ML : output[n].toks[1] = t => m <= n
            Pos(t) == CHOOSE p \in 1..Len(modes) : modes[p] = t
        IN /\ \A p, q \in 1..Len(modes) : modes[p] = modes[q] => p = q
           /\ \A m \in ML : InSeq(output[m].toks[1], modes)
           /\ \A m, n \in ML :
                 First(output[m].toks[1]) < First(output[n].toks[1])
                     => Pos(output[m].toks[1]) < Pos(output[n].toks[1])

\* C9 witness: a monitor whose section repeats a WxH token after a
\* different one has been parsed to the end.
C9_Witness ==
    /\ line_idx = Len(output)
    /\ \E i \in ParsedMonitors :
          \E a, b, c \in SectionOf(i) :
              /\ a < b /\ b < c
              /\ IsModeLine(output[a]) /\ IsModeLine(output[b]) /\ IsModeLine(output[c])
              /\ output[a].toks[1] = output[c].toks[1]
              /\ output[a].toks[1] # output[b].toks[1]
              /\ Len(p_displays[i].modes) = 2

\* C10: current_mode and current_rate of every parsed monitor are those of
\* the last marked mode line of the monitor's section, and the defaults
\* (the header's WxH, "60.00") when the section has no marked line.
C10_CurrentModeIsLastMarkedOfSection ==
    \A i \in ParsedMonitors :
        LET d == p_displays[i]
            MK == {m \in SectionOf(i) : IsMarkedLine(output[m])}
            last == CHOOSE m \in MK : \A n \in MK : n <= m
        IN IF MK = {}
           THEN /\ d.current_mode = ModeStr(d.width, d.height)
                /\ d.current_rate = "60.00"
           ELSE /\ d.current_mode = output[last].toks[1]
                /\ d.current_rate = MarkedRate(output[last])

\* a header line none of whose tokens is a geometry WxH+X+Y
HasNoGeometry(l) == \A k \in 1..Len(l.toks) : l.toks[k] \notin DOMAIN Geom

\* C11: a connected header without a geometry token yields a monitor of
\* width 1920, height 1080 at x = 0, y = 0, and the line is consumed like
\* any other.
C11_MissingGeometryDefaults ==
    /\ Len(p_displays) = Cardinality(ConsumedConnectedHeaders)
    /\ \A i \in ParsedMonitors :
          HasNoGeometry(output[HeaderLineOf(i)]) =>
              /\ p_displays[i].width = 1920
              /\ p_displays[i].height = 1080
              /\ p_displays[i].x = 0
              /\ p_displays[i].y = 0

\* C11 witness: an output with a connected header without geometry and one
\* with geometry has been parsed to the end.
C11_Witness ==
    /\ line_idx = Len(output)
    /\ \E i, j \in ParsedMonitors :
          /\ HasNoGeometry(output[HeaderLineOf(i)])
          /\ ~HasNoGeometry(output[HeaderLineOf(j)])
          /\ p_displays[i].width = 1920
          /\ p_displays[j].name # p_displays[i].name

\* the header line most recent among the first k lines, 0 if none
LastHeader(k) ==
    IF \E h \in 1..k : IsHeader(output[h])
    THEN CHOOSE h \in 1..k :
             IsHeader(output[h]) /\ \A j \in (h + 1)..k : ~IsHeader(output[j])
    ELSE 0

\* C19: a mode line belongs to the monitor of the most recent header above
\* it: under a connected header it changes that monitor's entry alone, and
\* under a disconnected header it changes no entry of the list.
C19_ModeLineGoesToLastHeader ==
    [][(line_idx' = line_idx + 1 /\ IsModeLine(output[line_idx + 1])
            /\ LastHeader(line_idx) # 0) =>
           IF IsConnectedHeader(output[LastHeader(line_idx)])
           THEN /\ Len(p_displays') = Len(p_displays)
                /\ \A i \in 1..(Len(p_displays) - 1) : p_displays'[i] = p_displays[i]
           ELSE p_displays' = p_displays]_vars

----------------------------------------------------------------------------
(* Properties of the selection *)

\* C1: the source and the target never name the same monitor.
C1_SourceDiffersFromTarget ==
    (source_display # None /\ target_display # None)
        => source_display # target_display

\* C7: from the empty selection a click on M makes M the source; a click
\* on the source while no target is set empties the selection again; a
\* click on another monitor B while A is the source and no target is set
\* leaves source = A and target = B.
C7_SelectionToggle ==
    [][(event'.op = "button_press" /\ target_display = None) =>
           /\ source_display = None =>
                  (source_display' = event'.name /\ target_display' = None)
           /\ source_display = event'.name =>
                  (source_display' = None /\ target_display' = None)
           /\ source_display \notin {None, event'.name} =>
                  (source_display' = source_display
                   /\ target_display' = event'.name)]_vars

\* C7 witness: a click has just made a second monitor the target.
C7_Witness ==
    /\ event.op = "button_press"
    /\ source_display \notin {None, event.name}
    /\ target_display = event.name

----------------------------------------------------------------------------
(* Properties of the drag release *)

\* strict intersection of two rectangles on both axes
RectsOverlap(a, b) ==
    /\ a.x < b.x + b.width /\ b.x < a.x + a.width
    /\ a.y < b.y + b.height /\ b.y < a.y + a.height

\* the rectangle of widget w put at (x, y)
RectAt(w, x, y) == [x |-> x, y |-> y, width |-> w.width, height |-> w.height]

Released == event.op = "button_release"

\* the widget the last release was about, as it is now
Dragged == WidgetOf(event.name)

\* the widgets as the last release found them: the dragged one at the
\* position where it was dropped
AtRelease ==
    [display_widgets EXCEPT ![KeyIndex(display_widgets, event.name)].x = event.x,
                            ![KeyIndex(display_widgets, event.name)].y = event.y]

\* the widget of display n would overlap another one of widgets at (x, y)
OverlapsIn(widgets, n, x, y) ==
    \E i \in 1..Len(widgets) :
        /\ widgets[i].name # n
        /\ RectsOverlap(RectAt(widgets[KeyIndex(widgets, n)], x, y), widgets[i])

\* a release of the widget of display n among widgets has a winning
\* candidate and discards it
VetoedIn(widgets, n) ==
    /\ BestSnap(widgets, n).found
    /\ OverlapsIn(widgets, n, BestSnap(widgets, n).x, BestSnap(widgets, n).y)

\* the winning snap candidate of the last release
Winner == BestSnap(AtRelease, event.name)

OverlapsAt(x, y) == OverlapsIn(display_widgets, event.name, x, y)

\* the last release had a winning candidate and discarded it
Vetoed == Released /\ VetoedIn(AtRelease, event.name)

FreeAnchors ==
    {i \in 1..Len(test_positions) :
        ~OverlapsAt(test_positions[i][1], test_positions[i][2])}

\* C2: when the winning candidate of a release would overlap another
\* monitor, the dragged monitor is left where it was dropped and the pending
\* changes are left as they were.
C2_VetoedSnapChangesNothing ==
    [][\A n \in WidgetNames :
           (/\ event'.op = "button_release"
            /\ event'.name = n
            /\ VetoedIn(display_widgets, n)) =>
               /\ display_widgets' =
                      [display_widgets EXCEPT
                          ![KeyIndex(display_widgets, n)].dragging = FALSE]
               /\ pending_layout_changes' = pending_layout_changes]_vars

\* C2 witness: a release has discarded its winning candidate while the
\* dragged monitor had a pending change, reached from another position.
C2_Witness ==
    /\ Vetoed
    /\ KeyIndex(pending_layout_changes, event.name) # 0
    /\ <<Winner.relative_to, Winner.direction>> #
           <<pending_layout_changes[KeyIndex(pending_layout_changes, event.name)].relative_to,
             pending_layout_changes[KeyIndex(pending_layout_changes, event.name)].direction>>

\* C3: when the winning candidate is discarded, the dragged monitor is put
\* at the first anchor at which it overlaps nothing, and stays where it was
\* dropped only if it overlaps at every anchor.
C3_VetoedSnapFallsBackToAnchor ==
    Vetoed =>
        IF FreeAnchors = {}
        THEN Dragged.x = event.x /\ Dragged.y = event.y
        ELSE /\ Dragged.x = test_positions[MinOf(FreeAnchors)][1]
             /\ Dragged.y = test_positions[MinOf(FreeAnchors)][2]

\* C4: after every release the dragged monitor overlaps no other monitor.
C4_NoOverlapAfterRelease ==
    Released => ~OverlapsAt(Dragged.x, Dragged.y)

\* C4, for the releases that place the monitor: after a release that commits a snap or moves the dragged
\* monitor away from where it was dropped, the monitor overlaps no other
\* monitor.
C4_NoOverlapWhenPlaced ==
    (Released /\ (shown # <<>> \/ <<Dragged.x, Dragged.y>> # <<event.x, event.y>>))
        => ~OverlapsAt(Dragged.x, Dragged.y)

\* C4 witness: a release has moved the dragged monitor to a snap position
\* next to one monitor while a third monitor is on the panel.
C4_Witness ==
    /\ Released
    /\ Winner.found
    /\ <<Dragged.x, Dragged.y>> = <<Winner.x, Winner.y>>
    /\ <<Dragged.x, Dragged.y>> # <<event.x, event.y>>
    /\ Len(display_widgets) = 3

----------------------------------------------------------------------------
(* Properties of the pending layout changes *)

\* C5: the pending changes are empty right after every apply and every
\* refresh, whatever the query returns.
C5_PendingEmptyAfterApplyAndRefresh ==
    event.op \in {"apply_layout", "refresh_clicked", "timeout_refresh"}
        => pending_layout_changes = <<>>

\* C6: Apply Layout makes exactly one invocation for every pending entry,
\* in the order of the entries, whatever the outcomes of the invocations.
C6_ApplyAttemptsEveryEntry ==
    [][event'.op = "apply_layout" =>
           /\ Len(commands') = Len(pending_layout_changes)
           /\ \A i \in 1..Len(pending_layout_changes) :
                 /\ commands'[i].output = pending_layout_changes[i].name
                 /\ commands'[i].option = "--" \o pending_layout_changes[i].direction
                 /\ commands'[i].arg = pending_layout_changes[i].relative_to]_vars

\* C6 witness: a batch whose first invocation failed and whose second one
\* was still made.
C6_Witness ==
    /\ event.op = "apply_layout"
    /\ Len(commands) >= 2
    /\ commands[1].outcome \in {"nonzero", "raised"}
    /\ commands[2].outcome = "ok"

----------------------------------------------------------------------------
(* Properties of the mirror grouping *)

SamePosition(i, j) ==
    displays[i].x = displays[j].x /\ displays[i].y = displays[j].y

\* the groups that hold the name of the i-th monitor
GroupsOf(G, i) == {g \in 1..Len(G) : InSeq(displays[i].name, G[g])}

RECURSIVE SumLen(_)
SumLen(G) == IF G = <<>> THEN 0 ELSE Len(G[1]) + SumLen(Tail(G))

\* C12: the groups partition the monitor list, two monitors share a group
\* iff their positions are equal, and exactly the monitors of the groups
\* of two or more are reported as mirrored.
C12_MirrorGroupsPartitionByPosition ==
    LET G == find_mirrored_display_groups(displays)
        I == 1..Len(displays)
        mirrored == find_mirrored_displays(displays)
    IN /\ SumLen(G) = Len(displays)
       /\ \A g \in 1..Len(G) : G[g] # <<>>
       /\ \A i \in I : Cardinality(GroupsOf(G, i)) = 1
       /\ \A i, j \in I : (GroupsOf(G, i) = GroupsOf(G, j)) <=> SamePosition(i, j)
       /\ \A i \in I :
             /\ InSeq(displays[i].name, mirrored)
                    <=> (\E j \in I \ {i} : SamePosition(i, j))
             /\ WidgetOf(displays[i].name).is_mirrored
                    <=> (\E j \in I \ {i} : SamePosition(i, j))

\* C12 witness: a refresh has found two monitors at one position and a
\* third one elsewhere, and marked the first two as mirrored, the third not.
C12_Witness ==
    /\ event.op \in {"refresh_clicked", "timeout_refresh"}
    /\ \E i, j, k \in 1..Len(displays) :
          /\ i # j
          /\ SamePosition(i, j)
          /\ ~SamePosition(i, k)
          /\ WidgetOf(displays[i].name).is_mirrored
          /\ WidgetOf(displays[i].name).mirrored_with = <<displays[j].name>>
          /\ ~WidgetOf(displays[k].name).is_mirrored

----------------------------------------------------------------------------
(* Properties of the choice of the snap candidate *)

Directions == <<"right-of", "left-of", "above", "below">>

\* where the dragged widget w goes when put on side dir of the widget o
Placement(w, o, dir) ==
    CASE dir = "right-of" -> <<o.x + o.width, o.y>>
      [] dir = "left-of" -> <<o.x - w.width, o.y>>
      [] dir = "above" -> <<o.x, o.y - w.height>>
      [] dir = "below" -> <<o.x, o.y + o.height>>

\* the candidates of the last release: <<i, d>> is side Directions[d] of
\* the i-th widget
Candidates ==
    {c \in (1..Len(display_widgets)) \X (1..4) :
        display_widgets[c[1]].name # event.name}

PlaceOf(c) == Placement(Dragged, display_widgets[c[1]], Directions[c[2]])

\* the square of the distance from the dropped top-left corner to c
SqDistance(c) ==
    (event.x - PlaceOf(c)[1]) * (event.x - PlaceOf(c)[1]) +
    (event.y - PlaceOf(c)[2]) * (event.y - PlaceOf(c)[2])

Nearest == {c \in Candidates : \A e \in Candidates : SqDistance(c) <= SqDistance(e)}

\* the nearest candidate that the enumeration reaches first
FirstNearest ==
    CHOOSE c \in Nearest :
        \A e \in Nearest : c[1] < e[1] \/ (c[1] = e[1] /\ c[2] <= e[2])

WithinThreshold == \E c \in Candidates : SqDistance(c) < 150 * 150

PendingOf(n) == pending_layout_changes[KeyIndex(pending_layout_changes, n)]

\* C13: when several candidates are at the minimum distance, the winner is
\* the one enumerated first (monitors in list order, then right-of,
\* left-of, above, below), and it is the one a committed snap records.
C13_TieGoesToFirstEnumerated ==
    (Released /\ WithinThreshold /\ Cardinality(Nearest) >= 2) =>
        /\ Winner.found
        /\ Winner.relative_to = display_widgets[FirstNearest[1]].name
        /\ Winner.direction = Directions[FirstNearest[2]]
        /\ ~OverlapsAt(PlaceOf(FirstNearest)[1], PlaceOf(FirstNearest)[2]) =>
               /\ <<Dragged.x, Dragged.y>> = PlaceOf(FirstNearest)
               /\ PendingOf(event.name).relative_to =
                      display_widgets[FirstNearest[1]].name
               /\ PendingOf(event.name).direction = Directions[FirstNearest[2]]

\* C13 witness: a release with two nearest candidates next to different
\* monitors has committed a snap.
C13_Witness ==
    /\ Released
    /\ WithinThreshold
    /\ \E c, e \in Nearest : c[1] # e[1]
    /\ shown # <<>>

\* C18: the winner of a release is a candidate at the minimum Euclidean
\* distance from the dropped top-left corner, over the four placements
\* next to every other monitor; there is a winner iff that distance is
\* less than 150, it never refers to the dragged monitor, and a snap is
\* committed only to the winner.
C18_WinnerIsNearestWithinThreshold ==
    Released =>
        /\ Winner.found <=> WithinThreshold
        /\ Winner.found =>
               /\ \E c \in Nearest :
                     /\ <<Winner.x, Winner.y>> = PlaceOf(c)
                     /\ Winner.relative_to = display_widgets[c[1]].name
                     /\ Winner.direction = Directions[c[2]]
               /\ Winner.relative_to # event.name
        /\ shown # <<>> =>
               /\ Winner.found
               /\ <<Dragged.x, Dragged.y>> = <<Winner.x, Winner.y>>
               /\ PendingOf(event.name).relative_to = Winner.relative_to
               /\ PendingOf(event.name).direction = Winner.direction

\* C18 witness: a snap has been committed to the nearest candidate while a
\* candidate next to another monitor was within the threshold but farther.
C18_Witness ==
    /\ Released
    /\ shown # <<>>
    /\ \E c \in Nearest, e \in Candidates :
          /\ c[1] # e[1]
          /\ SqDistance(c) < SqDistance(e)
          /\ SqDistance(e) < 150 * 150

----------------------------------------------------------------------------
(* Properties of the failure handling *)

AfterRefresh == event.op \in {"refresh_clicked", "timeout_refresh"}

\* C14: when the query cannot be launched or returns a non-zero code, the
\* monitor list the refresh gets is empty and a status message is shown.
C14_FailedQueryYieldsEmptyList ==
    (AfterRefresh /\ (event.raised \/ event.returncode # 0)) =>
        /\ displays = <<>>
        /\ display_widgets = <<>>
        /\ \E i \in 1..Len(shown) : shown[i].text = "No displays found"

SelectionOps == {"mirror", "extend_right", "extend_left"}

\* C15: when the command of Mirror or Extend returns a non-zero code or
\* cannot be launched, an error dialog carries its diagnostic text
\* ("Unknown error" when stderr is empty), no refresh is scheduled, and the
\* monitor list, the selection and the pending changes stay as they were.
C15_FailedCommandChangesNothing ==
    [][(event'.op \in SelectionOps /\ commands' # <<>> /\ event'.outcome # "ok") =>
           /\ dialogs' =
                  <<CASE event'.outcome = "nonzero" -> "xrandr failed: stderr text"
                      [] event'.outcome = "nonzero_silent" ->
                             "xrandr failed: Unknown error"
                      [] event'.outcome = "raised" -> "Error: exception">>
           /\ shown'[Len(shown')].text = "Error: " \o dialogs'[1]
           /\ timeouts' = timeouts
           /\ displays' = displays
           /\ display_widgets' = display_widgets
           /\ source_display' = source_display
           /\ target_display' = target_display
           /\ pending_layout_changes' = pending_layout_changes]_vars

\* C15 witness: a command of Mirror or Extend has failed without text on
\* stderr while a layout change was pending.
C15_Witness ==
    /\ event.op \in SelectionOps
    /\ event.outcome = "nonzero_silent"
    /\ commands # <<>>
    /\ dialogs = <<"xrandr failed: Unknown error">>
    /\ source_display # None /\ target_display # None
    /\ pending_layout_changes # <<>>

\* a command of Mirror or Extend has just returned with code 0
CommandSucceeded ==
    event.op \in SelectionOps /\ commands # <<>> /\ event.outcome = "ok"

\* C16: a successful command of Mirror or Extend does not re-read the
\* monitor list in its handler; it schedules one refresh, and that refresh
\* eventually runs and leaves the monitor list of a fresh query.
C16_SuccessSchedulesRefresh ==
    /\ [][CommandSucceeded' =>
              /\ timeouts' = timeouts + 1
              /\ displays' = displays
              /\ display_widgets' = display_widgets
              /\ <<output, line_idx, p_displays>>' = <<output, line_idx, p_displays>>]_vars
    /\ CommandSucceeded ~>
           (event.op = "timeout_refresh" /\ displays = ParseOutput(output))

\* C16 witness: a command of Mirror or Extend has succeeded and its
\* refresh is waiting.
C16_Witness ==
    /\ CommandSucceeded
    /\ timeouts = 1
    /\ displays # <<>>

----------------------------------------------------------------------------
(* Properties of the pending changes under snaps *)

EntriesOf(pending, n) == {pending[i] : i \in {k \in 1..Len(pending) : pending[k].name = n}}

\* C17: a committed snap of monitor M leaves exactly one pending entry for
\* M, the (reference, direction) of this snap, whatever entry M had
\* before, and leaves the entries of the other monitors as they were.
C17_LastSnapWins ==
    [][\A n \in WidgetNames :
           (event'.op = "button_release" /\ event'.name = n /\ shown' # <<>>) =>
               /\ Cardinality({i \in 1..Len(pending_layout_changes') :
                                  pending_layout_changes'[i].name = n}) = 1
               /\ EntriesOf(pending_layout_changes', n) =
                      {[name |-> n,
                        relative_to |-> BestSnap(display_widgets, n).relative_to,
                        direction |-> BestSnap(display_widgets, n).direction]}
               /\ \A m \in WidgetNames \ {n} :
                      /\ EntriesOf(pending_layout_changes', m) =
                             EntriesOf(pending_layout_changes, m)
                      /\ Cardinality({i \in 1..Len(pending_layout_changes') :
                                         pending_layout_changes'[i].name = m}) <= 1]_vars

\* C17 witness: a second snap of a monitor has been committed with another
\* reference and direction than its first one.
C17_Witness ==
    /\ Released
    /\ shown # <<>>
    /\ event.old # <<>>
    /\ event.old[1] # PendingOf(event.name)
    /\ Len(pending_layout_changes) = 1

----------------------------------------------------------------------------
(* Properties of the release without a candidate *)

\* no placement next to another widget is less than 150 away from the
\* widget of display n
NoneWithin(widgets, n) ==
    LET w == widgets[KeyIndex(widgets, n)] IN
    \A i \in 1..Len(widgets), d \in 1..4 :
        widgets[i].name # n =>
            LET c == Placement(w, widgets[i], Directions[d])
            IN (w.x - c[1]) * (w.x - c[1]) + (w.y - c[2]) * (w.y - c[2])
                   >= 150 * 150

\* the anchors at which the widget of display n overlaps no other widget
FreeAnchorsIn(widgets, n) ==
    {i \in 1..Len(test_positions) :
        ~OverlapsIn(widgets, n, test_positions[i][1], test_positions[i][2])}

ReleaseOf(n) == event'.op = "button_release" /\ event'.name = n

\* C20: a release with no candidate within the threshold leaves the
\* dragged monitor where it was dropped and the pending changes as they
\* were.
C20_NoCandidateLeavesMonitor ==
    [][\A n \in WidgetNames :
           (ReleaseOf(n) /\ NoneWithin(display_widgets, n)) =>
               /\ display_widgets' =
                      [display_widgets EXCEPT
                          ![KeyIndex(display_widgets, n)].dragging = FALSE]
               /\ pending_layout_changes' = pending_layout_changes]_vars

\* C20, with the anchors: a release with no candidate within the threshold
\* leaves the pending changes as they were and puts the dragged monitor at
\* the first anchor at which it overlaps nothing; the monitor stays where
\* it was dropped only when it overlaps at every anchor.
C20_NoCandidateGoesToFreeAnchor ==
    [][\A n \in WidgetNames :
           (ReleaseOf(n) /\ NoneWithin(display_widgets, n)) =>
               LET k == KeyIndex(display_widgets, n)
                   F == FreeAnchorsIn(display_widgets, n)
                   a == test_positions[MinOf(F)]
               IN /\ pending_layout_changes' = pending_layout_changes
                  /\ shown' = <<>>
                  /\ display_widgets' =
                         IF F = {}
                         THEN [display_widgets EXCEPT ![k].dragging = FALSE]
                         ELSE [display_widgets EXCEPT ![k].dragging = FALSE,
                                                      ![k].x = a[1],
                                                      ![k].y = a[2]]]_vars

\* C20 witness: a release with no candidate within the threshold has moved
\* the dragged monitor from where it was dropped to an anchor, with a
\* pending change of an earlier snap in place.
C20_Witness ==
    /\ Released
    /\ ~WithinThreshold
    /\ FreeAnchors # {}
    /\ <<Dragged.x, Dragged.y>> = test_positions[MinOf(FreeAnchors)]
    /\ <<Dragged.x, Dragged.y>> # <<event.x, event.y>>
    /\ pending_layout_changes # <<>>

----------------------------------------------------------------------------
(* Properties of Unlink Mirrored *)

SomeMirrored == \E i, j \in 1..Len(displays) : i # j /\ SamePosition(i, j)

\* C21: when some monitors share a position, Unlink makes one invocation
\* per monitor in list order, the first with --pos 0x0 and each later one
\* with --right-of its predecessor, whatever the outcomes; when no monitors
\* share a position it makes none.
C21_UnlinkChainsEveryMonitor ==
    [][event'.op = "unlink_mirror" =>
           IF SomeMirrored
           THEN /\ Len(commands') = Len(displays)
                /\ \A i \in 1..Len(displays) :
                      /\ commands'[i].output = displays[i].name
                      /\ commands'[i].option = IF i = 1 THEN "--pos" ELSE "--right-of"
                      /\ commands'[i].arg =
                             IF i = 1 THEN "0x0" ELSE displays[i - 1].name
           ELSE commands' = <<>>]_vars

\* C21 witness: Unlink has run on three monitors, its first invocation has
\* failed and its last one has succeeded.
C21_Witness ==
    /\ event.op = "unlink_mirror"
    /\ Len(commands) = 3
    /\ commands[1].outcome # "ok"
    /\ commands[3].outcome = "ok"
    /\ commands[3].arg = displays[2].name

\* C22: right after every refresh the Unlink button is enabled iff some
\* monitors of the list share a position, and a monitor is flagged as
\* mirrored iff it shares its position with another one.
C22_UnlinkEnabledIffMirrored ==
    AfterRefresh =>
        /\ unlink_mirror_btn <=> SomeMirrored
        /\ \A i \in 1..Len(displays) :
              WidgetOf(displays[i].name).is_mirrored
                  <=> (\E j \in 1..Len(displays) : j # i /\ SamePosition(i, j))

----------------------------------------------------------------------------
(* Properties of the messages of a batch *)

FailedOutputs ==
    {commands[i].output : i \in {k \in 1..Len(commands) : commands[k].outcome # "ok"}}

\* C23: when an invocation of Apply Layout or of Unlink has failed, the
\* message on the status bar at the end of the batch is a failure message
\* that names a monitor whose invocation failed.
C23_BatchFailureStaysVisible ==
    (event.op \in {"apply_layout", "unlink_mirror"} /\ FailedOutputs # {}) =>
        /\ shown # <<>>
        /\ shown[Len(shown)].name \in FailedOutputs

----------------------------------------------------------------------------
(* Properties of the buttons *)

BothSelected == source_display # None /\ target_display # None

\* C24: Mirror, Extend Right and Extend Left are enabled iff a source and
\* a target are both selected.
C24_ActionButtonsIffBothSelected ==
    /\ mirror_btn <=> BothSelected
    /\ extend_right_btn <=> BothSelected
    /\ extend_left_btn <=> BothSelected

\* C25: every click on an enabled Mirror or Extend button issues one
\* command whose output is the selected target and whose reference is the
\* selected source, both set and different from each other.
C25_CommandNamesTargetAndSource ==
    [][event'.op \in SelectionOps =>
           /\ BothSelected
           /\ source_display # target_display
           /\ Len(commands') = 1
           /\ commands'[1].output = target_display
           /\ commands'[1].arg = source_display
           /\ commands'[1].option =
                  CASE event'.op = "mirror" -> "--same-as"
                    [] event'.op = "extend_right" -> "--right-of"
                    [] event'.op = "extend_left" -> "--left-of"]_vars

\* C25 witness: Extend Left has issued its command for the selected pair.
C25_Witness ==
    /\ event.op = "extend_left"
    /\ Len(commands) = 1
    /\ commands[1].output = target_display
    /\ commands[1].arg = source_display
    /\ source_display # target_display

\* C26: Apply Layout is enabled iff there is a pending layout change.
C26_ApplyEnabledIffPending ==
    apply_layout_btn <=> (pending_layout_changes # <<>>)

\* C26 witness: Apply Layout has run a batch of two changes and is
\* disabled again.
C26_Witness ==
    /\ event.op = "apply_layout"
    /\ Len(commands) = 2
    /\ pending_layout_changes = <<>>
    /\ ~apply_layout_btn

----------------------------------------------------------------------------
(* Properties of the selection under refreshes *)

ListedNames == {displays[i].name : i \in 1..Len(displays)}

\* C27: a selected source or target names a monitor of the current list.
C27_SelectionNamesListedMonitor ==
    /\ source_display # None => source_display \in ListedNames
    /\ target_display # None => target_display \in ListedNames

----------------------------------------------------------------------------
(* Properties of the pending changes and the rectangles *)

\* the widget of entry e sits on side e.direction of the widget of
\* e.relative_to
SitsAsRecorded(e) ==
    <<WidgetOf(e.name).x, WidgetOf(e.name).y>> =
        Placement(WidgetOf(e.name), WidgetOf(e.relative_to), e.direction)

\* C28: while no drag is under way, every monitor with a pending change
\* (R, direction) sits at the snap position of that direction next to R's
\* rectangle.
C28_PendingMatchesRectangles ==
    Grabbed = {} =>
        \A i \in 1..Len(pending_layout_changes) :
            LET e == pending_layout_changes[i] IN
            (e.name \in WidgetNames /\ e.relative_to \in WidgetNames)
                => SitsAsRecorded(e)

=============================================================================
